---- MODULE Spec2Model ----
(***************************************************************************)
(* Box-fit camera projection and letterbox border of bevy_pixel_camera.    *)
(*                                                                         *)
(* The projection arithmetic of the source is IEEE-754 binary32 (f32).     *)
(* An f32 value is modelled by a record [s, m, e] standing for s*m*2^e,    *)
(* with s in {1,-1} and m = 0 (zero, s = 1) or 2^23 <= m < 2^24.  Every    *)
(* operation rounds to nearest, ties to even, as the hardware does.        *)
(* Subnormals, infinities, NaN and the sign of zero are outside the        *)
(* ranges the model draws its inputs from.                                 *)
(***************************************************************************)
EXTENDS Integers, Sequences, FiniteSets, TLC

----------------------------------------------------------------------------
(* binary32 arithmetic                                                     *)

F32Zero == [s |-> 1, m |-> 0, e |-> 0]

\* the number of bits of n, for 0 <= n < 2^31
RECURSIVE BitLen(_)
BitLen(n) ==
    IF n >= 2^24 THEN 24 + BitLen(n \div (2^24))
    ELSE IF n >= 2^23 THEN 24
    ELSE IF n >= 4096 THEN 12 + BitLen(n \div 4096)
    ELSE IF n >= 64 THEN 6 + BitLen(n \div 64)
    ELSE IF n >= 8 THEN 3 + BitLen(n \div 8)
    ELSE IF n = 0 THEN 0 ELSE 1 + BitLen(n \div 2)

\* n / 2^k rounded to the nearest integer, ties to even
RoundShift(n, k) ==
    LET q == n \div (2^k)
        r == n % (2^k)
        half == 2^(k - 1)
    IN  IF r > half \/ (r = half /\ q % 2 = 1) THEN q + 1 ELSE q

\* n / 2^k truncated, the lowest bit set when any one bit was shifted out
ShiftRightJam(n, k) ==
    IF k >= 30 THEN (IF n = 0 THEN 0 ELSE 1)
    ELSE LET q == n \div (2^k)
         IN  IF n % (2^k) # 0 /\ q % 2 = 0 THEN q + 1 ELSE q

\* the f32 nearest to s * n * 2^x, for 0 <= n < 2^31
F32Pack(s, n, x) ==
    IF n = 0 THEN F32Zero
    ELSE LET len == BitLen(n)
         IN  IF len <= 24
             THEN [s |-> s, m |-> n * 2^(24 - len), e |-> x - (24 - len)]
             ELSE LET k == len - 24
                      q == RoundShift(n, k)
                  IN  IF q = 2^24
                      THEN [s |-> s, m |-> 2^23, e |-> x + k + 1]
                      ELSE [s |-> s, m |-> q, e |-> x + k]

F32Neg(a) == IF a.m = 0 THEN a ELSE [a EXCEPT !.s = -a.s]

F32MagLt(a, b) ==
    IF b.m = 0 THEN FALSE
    ELSE IF a.m = 0 THEN TRUE
    ELSE a.e < b.e \/ (a.e = b.e /\ a.m < b.m)

F32Lt(a, b) ==
    IF a.s = 1 /\ b.s = 1 THEN F32MagLt(a, b)
    ELSE IF a.s = -1 /\ b.s = -1 THEN F32MagLt(b, a)
    ELSE a.s = -1

F32Le(a, b) == ~F32Lt(b, a)

F32Abs(a) == [a EXCEPT !.s = 1]

\* f32::max, which a slip of the pen writes for min
F32Max(a, b) == IF F32Lt(a, b) THEN b ELSE a

\* f32::min
F32Min(a, b) == IF F32Lt(b, a) THEN b ELSE a

\* a + b: three guard bits below the larger operand, the smaller one jammed
F32Add(a, b) ==
    IF a.m = 0 THEN b
    ELSE IF b.m = 0 THEN a
    ELSE LET big == IF F32MagLt(a, b) THEN b ELSE a
             small == IF F32MagLt(a, b) THEN a ELSE b
             X == big.m * 8
             Y == ShiftRightJam(small.m * 8, big.e - small.e)
         IN  IF big.s = small.s
             THEN F32Pack(big.s, X + Y, big.e - 3)
             ELSE F32Pack(big.s, X - Y, big.e - 3)

F32Sub(a, b) == F32Add(a, F32Neg(b))

\* long division: k more quotient bits of r / d appended to q, for r < d < 2^24
\* and k <= 7; <<quotient, remainder>>
DivBits(q, r, d, k) ==
    <<q * 2^k + ((r * 2^k) \div d), (r * 2^k) % d>>

\* a / b, b nonzero: 26 quotient bits, the remainder jammed below them
F32Div(a, b) ==
    IF a.m = 0 THEN F32Zero
    ELSE LET q0 == DivBits(a.m \div b.m, a.m % b.m, b.m, 7)
             q1 == DivBits(q0[1], q0[2], b.m, 6)
             q2 == DivBits(q1[1], q1[2], b.m, 6)
             q3 == DivBits(q2[1], q2[2], b.m, 6)
             q == 2 * q3[1] + (IF q3[2] # 0 THEN 1 ELSE 0)
         IN  F32Pack(a.s * b.s, q, a.e - b.e - 26)

\* a * b: the 48-bit product from 12-bit halves, its low 20 bits jammed
F32Mul(a, b) ==
    IF a.m = 0 \/ b.m = 0 THEN F32Zero
    ELSE LET ah == a.m \div 4096
             al == a.m % 4096
             bh == b.m \div 4096
             bl == b.m % 4096
             lo == al * bl
             t == (ah * bl + al * bh) + (lo \div 4096)
             u == ah * bh + (t \div 4096)
             L == (t % 4096) * 4096 + (lo % 4096)
             M == u * 16 + (L \div (2^20))
             Mj == IF L % (2^20) # 0 /\ M % 2 = 0 THEN M + 1 ELSE M
         IN  F32Pack(a.s * b.s, Mj, a.e + b.e + 20)

\* f32::trunc, the fraction dropped, where round was meant
F32Trunc(a) ==
    IF a.m = 0 \/ a.e >= 0 THEN a
    ELSE IF -a.e >= 24 THEN F32Zero
    ELSE F32Pack(a.s, a.m \div (2^(-a.e)), 0)

\* f32::round: to the nearest integer, halves away from zero
F32Round(a) ==
    IF a.m = 0 \/ a.e >= 0 THEN a
    ELSE IF -a.e >= 25 THEN F32Zero
    ELSE LET k == -a.e
             q == a.m \div (2^k)
             r == a.m % (2^k)
         IN  F32Pack(a.s, IF r >= 2^(k - 1) THEN q + 1 ELSE q, 0)

I32Max == (2^30 - 1) + 2^30

\* `i as f32`
I32ToF32(i) == IF i >= 0 THEN F32Pack(1, i, 0) ELSE F32Pack(-1, -i, 0)

\* `x as i32`: truncation toward zero, saturating
F32ToI32(a) ==
    IF a.m = 0 THEN 0
    ELSE IF a.e >= 8 THEN (IF a.s = 1 THEN I32Max ELSE -I32Max - 1)
    ELSE IF a.e >= 0 THEN a.s * (a.m * 2^a.e)
    ELSE IF -a.e >= 24 THEN 0
    ELSE a.s * (a.m \div (2^(-a.e)))

\* i32 `/`: the quotient truncated toward zero
I32Div(a, b) ==
    LET q == (IF a >= 0 THEN a ELSE -a) \div (IF b >= 0 THEN b ELSE -b)
    IN  IF (a >= 0) = (b >= 0) THEN q ELSE -q

\* a decimal literal num/den of the source, as the compiler rounds it
F32Lit(num, den) == F32Div(I32ToF32(num), I32ToF32(den))

----------------------------------------------------------------------------
(* bounds of the model                                                     *)

\* virtual resolutions 1..MaxVirtual and window sizes 1..MaxWindow of the
\* whole-system specification
MaxVirtual == 2
MaxWindow == 2
\* camera translations 0, -1/2, 2/2, -3/2, ... up to MaxMove halves, on each axis
MaxMove == 1
\* the projection and the placement specifications draw virtual resolutions
\* from 1..MaxProjVirtual and from the multiples 7, 14, ... of 7 up to
\* 7 * MaxSevenths (7 is the least width w for which the f32 quotient
\* W / (W / w) falls below w), and window sizes from 1..MaxProjWindow
MaxProjVirtual == 2
MaxSevenths == 1
MaxProjWindow == 4

VirtualSizes == 1..MaxVirtual
WindowSizes == 1..MaxWindow
Moves == {F32Div(I32ToF32(IF k % 2 = 1 THEN -k ELSE k), I32ToF32(2)) : k \in 0..MaxMove}
ProjVirtualSizes == (1..MaxProjVirtual) \cup {7 * k : k \in 1..MaxSevenths}
ProjWindowSizes == 1..MaxProjWindow

----------------------------------------------------------------------------
(* box_fit_camera.rs                                                       *)

\* update with the two branches of `if self.centered` exchanged
update_swapped(self, width, height) ==
    LET zoom == F32Min(F32Div(width, I32ToF32(self.virtual_width)),
                       F32Div(height, I32ToF32(self.virtual_height)))
        actual_width == F32Div(width, zoom)
        actual_height == F32Div(height, zoom)
        left == I32ToF32(-I32Div(F32ToI32(actual_width), 2))
        bottom == I32ToF32(-I32Div(F32ToI32(actual_height), 2))
    IN  IF ~self.centered
        THEN [self EXCEPT !.zoom = zoom,
                          !.left = left,
                          !.right = F32Add(left, actual_width),
                          !.bottom = bottom,
                          !.top = F32Add(bottom, actual_height)]
        ELSE [self EXCEPT !.zoom = zoom,
                          !.left = F32Zero,
                          !.right = actual_width,
                          !.bottom = F32Zero,
                          !.top = actual_height]

\* update placing the region symmetrically, the half extent not truncated
update_symmetric(self, width, height) ==
    LET zoom == F32Min(F32Div(width, I32ToF32(self.virtual_width)),
                       F32Div(height, I32ToF32(self.virtual_height)))
        actual_width == F32Div(width, zoom)
        actual_height == F32Div(height, zoom)
        left == F32Neg(F32Div(actual_width, I32ToF32(2)))
        bottom == F32Neg(F32Div(actual_height, I32ToF32(2)))
    IN  IF self.centered
        THEN [self EXCEPT !.zoom = zoom,
                          !.left = left,
                          !.right = F32Add(left, actual_width),
                          !.bottom = bottom,
                          !.top = F32Add(bottom, actual_height)]
        ELSE [self EXCEPT !.zoom = zoom,
                          !.left = F32Zero,
                          !.right = actual_width,
                          !.bottom = F32Zero,
                          !.top = actual_height]

\* CameraProjection::update
update(self, width, height) ==
    LET zoom_x == F32Div(width, I32ToF32(self.virtual_width))
        zoom_y == F32Div(height, I32ToF32(self.virtual_height))
        zoom == F32Min(zoom_x, zoom_y)
        actual_width == F32Div(width, zoom)
        actual_height == F32Div(height, zoom)
        left == I32ToF32(-I32Div(F32ToI32(actual_width), 2))
        bottom == I32ToF32(-I32Div(F32ToI32(actual_height), 2))
    IN  IF self.centered
        THEN [self EXCEPT !.zoom = zoom,
                          !.left = left,
                          !.right = F32Add(left, actual_width),
                          !.bottom = bottom,
                          !.top = F32Add(bottom, actual_height)]
        ELSE [self EXCEPT !.zoom = zoom,
                          !.left = F32Zero,
                          !.right = actual_width,
                          !.bottom = F32Zero,
                          !.top = actual_height]

\* from_resolution without its closing call of update
from_resolution_no_update(width, height) ==
    [left |-> I32ToF32(-1),
     right |-> I32ToF32(1),
     bottom |-> I32ToF32(-1),
     top |-> I32ToF32(1),
     near |-> F32Zero,
     far |-> I32ToF32(1000),
     virtual_width |-> width,
     virtual_height |-> height,
     zoom |-> I32ToF32(1),
     centered |-> TRUE]

\* BoxFitProjection::from_resolution
from_resolution(width, height) ==
    update([left |-> I32ToF32(-1),
            right |-> I32ToF32(1),
            bottom |-> I32ToF32(-1),
            top |-> I32ToF32(1),
            near |-> F32Zero,
            far |-> I32ToF32(1000),
            virtual_width |-> width,
            virtual_height |-> height,
            zoom |-> I32ToF32(1),
            centered |-> TRUE],
           I32ToF32(width), I32ToF32(height))

\* impl Default for BoxFitProjection
DefaultProjection == from_resolution(640, 480)

\* BoxFitCameraBundle::from_resolution: the projection and the translation of
\* the transform; both components count as changed when they are inserted
BoxFitCameraBundle(width, height) ==
    LET projection == from_resolution(width, height)
    IN  [projection |-> projection,
         translation |-> [x |-> F32Zero, y |-> F32Zero,
                          z |-> F32Sub(projection.far, F32Lit(1, 10))],
         projection_changed |-> TRUE,
         transform_changed |-> TRUE]

----------------------------------------------------------------------------
(* box_fit_border.rs                                                       *)

Border == {"Left", "Right", "Top", "Bottom"}

\* a border entity: the translation of its Transform and its Sprite size
Quad(x, y, z, w, h) == [x |-> x, y |-> y, z |-> z, w |-> w, h |-> h]

\* spawn_borders: four SpriteBundle::default(), identity transform, zero size
SpawnedBorders ==
    [b \in Border |-> Quad(F32Zero, F32Zero, F32Zero, F32Zero, F32Zero)]

\* the body of resize_borders for one camera: the geometry of every border
PlaceBorders(projection, translation) ==
    LET z == F32Sub(projection.far, F32Lit(2, 10))
        width == I32ToF32(projection.virtual_width)
        height == I32ToF32(projection.virtual_height)
        left == F32Add(translation.x,
                       IF projection.centered
                       THEN F32Neg(F32Round(F32Div(width, I32ToF32(2))))
                       ELSE F32Zero)
        right == F32Add(left, width)
        bottom == F32Add(translation.y,
                         IF projection.centered
                         THEN F32Round(F32Div(F32Neg(height), I32ToF32(2)))
                         ELSE F32Zero)
        top == F32Add(bottom, height)
        three == I32ToF32(3)
    IN  [b \in Border |->
           CASE b = "Left" ->
                  Quad(F32Sub(left, width), F32Sub(bottom, height), z,
                       width, F32Mul(three, height))
             [] b = "Right" ->
                  Quad(right, F32Sub(bottom, height), z,
                       width, F32Mul(three, height))
             [] b = "Top" ->
                  Quad(F32Sub(left, width), top, z,
                       F32Mul(three, width), height)
             [] b = "Bottom" ->
                  Quad(F32Sub(left, width), F32Sub(bottom, height), z,
                       F32Mul(three, width), height)]

\* the cameras query with Changed<BoxFitProjection> as its only filter
ChangedProjections(cams) ==
    SelectSeq(cams, LAMBDA c : c.projection_changed)

\* the cameras query of resize_borders: the entities that carry a
\* BoxFitProjection and whose projection or transform changed since the
\* system last ran
ChangedCameras(cams) ==
    SelectSeq(cams, LAMBDA c : c.projection_changed \/ c.transform_changed)

\* resize_borders putting the borders back where spawn_borders left them
\* when the query finds no camera
resize_borders_reset(cams, quads) ==
    IF ChangedCameras(cams) # <<>>
    THEN PlaceBorders(Head(ChangedCameras(cams)).projection,
                      Head(ChangedCameras(cams)).translation)
    ELSE SpawnedBorders

\* resize_borders: the borders it leaves, given the cameras and the borders
resize_borders(cams, quads) ==
    IF ChangedCameras(cams) # <<>>
    THEN PlaceBorders(Head(ChangedCameras(cams)).projection,
                      Head(ChangedCameras(cams)).translation)
    ELSE quads

----------------------------------------------------------------------------
(* the state                                                               *)

VARIABLES
    cameras,     \* the camera entities of the world: none or one
    borders,     \* the four border entities
    updateArgs,  \* width and height of the latest update call
    lastOp       \* the operation that ran last

vars == <<cameras, borders, updateArgs, lastOp>>

Args(width, height) == [width |-> width, height |-> height]

Init ==
    /\ cameras = <<>>
    /\ borders = SpawnedBorders
    /\ updateArgs = Args(I32ToF32(640), I32ToF32(480))
    /\ lastOp = "spawn_borders"

\* the application spawns BoxFitCameraBundle::from_resolution(width, height)
SpawnCamera(width, height) ==
    /\ cameras = <<>>
    /\ cameras' = <<BoxFitCameraBundle(width, height)>>
    /\ updateArgs' = Args(I32ToF32(width), I32ToF32(height))
    /\ lastOp' = "from_resolution"
    /\ UNCHANGED borders

DespawnCamera ==
    /\ cameras # <<>>
    /\ cameras' = <<>>
    /\ lastOp' = "despawn"
    /\ UNCHANGED <<borders, updateArgs>>

\* the application assigns a public field of the projection
SetCentered(centered) ==
    /\ cameras # <<>>
    /\ cameras' = <<[cameras[1] EXCEPT !.projection.centered = centered,
                                       !.projection_changed = TRUE]>>
    /\ lastOp' = "assign"
    /\ UNCHANGED <<borders, updateArgs>>

SetVirtualWidth(width) ==
    /\ cameras # <<>>
    /\ cameras' = <<[cameras[1] EXCEPT !.projection.virtual_width = width,
                                       !.projection_changed = TRUE]>>
    /\ lastOp' = "assign"
    /\ UNCHANGED <<borders, updateArgs>>

SetVirtualHeight(height) ==
    /\ cameras # <<>>
    /\ cameras' = <<[cameras[1] EXCEPT !.projection.virtual_height = height,
                                       !.projection_changed = TRUE]>>
    /\ lastOp' = "assign"
    /\ UNCHANGED <<borders, updateArgs>>

\* the host reports the viewport size: CameraProjection::update(width, height)
Update(width, height) ==
    /\ cameras # <<>>
    /\ cameras' = <<[cameras[1] EXCEPT
                       !.projection = update(@, I32ToF32(width), I32ToF32(height)),
                       !.projection_changed = TRUE]>>
    /\ updateArgs' = Args(I32ToF32(width), I32ToF32(height))
    /\ lastOp' = "update"
    /\ UNCHANGED borders

\* the application moves the camera
MoveCamera(x, y) ==
    /\ cameras # <<>>
    /\ cameras' = <<[cameras[1] EXCEPT !.translation.x = x,
                                       !.translation.y = y,
                                       !.transform_changed = TRUE]>>
    /\ lastOp' = "move"
    /\ UNCHANGED <<borders, updateArgs>>

\* one run of the resize_borders system; the changes it has seen are no
\* longer changes to its next run
ResizeBorders ==
    /\ borders' = resize_borders(cameras, borders)
    /\ cameras' = IF cameras = <<>> THEN <<>>
                  ELSE <<[cameras[1] EXCEPT !.projection_changed = FALSE,
                                            !.transform_changed = FALSE]>>
    /\ lastOp' = IF ChangedCameras(cameras) # <<>>
                 THEN "resize_borders" ELSE "resize_borders_idle"
    /\ UNCHANGED updateArgs

Next ==
    \/ \E w, h \in VirtualSizes : SpawnCamera(w, h)
    \/ DespawnCamera
    \/ \E c \in BOOLEAN : SetCentered(c)
    \/ \E w \in VirtualSizes : SetVirtualWidth(w)
    \/ \E h \in VirtualSizes : SetVirtualHeight(h)
    \/ \E w, h \in WindowSizes : Update(w, h)
    \/ \E x, y \in Moves : MoveCamera(x, y)
    \/ ResizeBorders

Spec == Init /\ [][Next]_vars

\* the projection alone: constructed, reconfigured and updated
InitProj ==
    /\ \/ \E w, h \in ProjVirtualSizes :
            /\ cameras = <<BoxFitCameraBundle(w, h)>>
            /\ updateArgs = Args(I32ToF32(w), I32ToF32(h))
       \/ /\ cameras = <<[BoxFitCameraBundle(640, 480)
                            EXCEPT !.projection = DefaultProjection]>>
          /\ updateArgs = Args(I32ToF32(640), I32ToF32(480))
    /\ borders = SpawnedBorders
    /\ lastOp = "from_resolution"

NextProj ==
    \/ \E c \in BOOLEAN : SetCentered(c)
    \/ \E w \in ProjVirtualSizes : SetVirtualWidth(w)
    \/ \E h \in ProjVirtualSizes : SetVirtualHeight(h)
    \/ \E w, h \in ProjWindowSizes : Update(w, h)

SpecProj == InitProj /\ [][NextProj]_vars

\* the border placement alone: a camera set up by the application, with any
\* resolution, centering and translation, then moved, recentered and framed
InitPlace ==
    /\ \E w, h \in ProjVirtualSizes, c \in BOOLEAN, x, y \in Moves :
          cameras = <<[BoxFitCameraBundle(w, h) EXCEPT !.projection.centered = c,
                                                       !.translation.x = x,
                                                       !.translation.y = y]>>
    /\ borders = SpawnedBorders
    /\ updateArgs = Args(I32ToF32(cameras[1].projection.virtual_width),
                         I32ToF32(cameras[1].projection.virtual_height))
    /\ lastOp = "assign"

NextPlace ==
    \/ \E c \in BOOLEAN : SetCentered(c)
    \/ \E x, y \in Moves : MoveCamera(x, y)
    \/ ResizeBorders

SpecPlace == InitPlace /\ [][NextPlace]_vars

----------------------------------------------------------------------------
(* the projection                                                          *)

HasCamera == cameras # <<>>
Projection == cameras[1].projection
Translation == cameras[1].translation

\* update has just run on the camera's projection
AfterUpdate == HasCamera /\ lastOp = "update"

\* the extents the latest update divided out of its arguments
ActualWidth == F32Div(updateArgs.width, Projection.zoom)
ActualHeight == F32Div(updateArgs.height, Projection.zoom)
VisibleWidth == F32Sub(Projection.right, Projection.left)
VisibleHeight == F32Sub(Projection.top, Projection.bottom)

\* a is b to within one part in 2^23
Within(a, b) == F32Le(F32Abs(F32Sub(a, b)), [F32Abs(b) EXCEPT !.e = @ - 23])

\* zoom is the smaller of the two per-axis ratios
ZoomIsMin ==
    LET zoom_x == F32Div(updateArgs.width, I32ToF32(Projection.virtual_width))
        zoom_y == F32Div(updateArgs.height, I32ToF32(Projection.virtual_height))
    IN  /\ Projection.zoom \in {zoom_x, zoom_y}
        /\ F32Le(Projection.zoom, zoom_x)
        /\ F32Le(Projection.zoom, zoom_y)

\* C1 as stated: after update(W, H), in either mode, zoom = min(W/vw, H/vh)
\* and the products (right - left) * zoom and (top - bottom) * zoom are
\* W and H.
C1_ProductsExact ==
    AfterUpdate =>
        /\ ZoomIsMin
        /\ F32Mul(VisibleWidth, Projection.zoom) = updateArgs.width
        /\ F32Mul(VisibleHeight, Projection.zoom) = updateArgs.height

\* C1 as amended: after update(W, H), in either mode, zoom = min(W/vw, H/vh),
\* right - left = W / zoom and top - bottom = H / zoom as f32 computes them,
\* and the products (right - left) * zoom and (top - bottom) * zoom are W
\* and H to within one part in 2^23.
C1_ZoomAndExtents ==
    AfterUpdate =>
        /\ ZoomIsMin
        /\ VisibleWidth = ActualWidth
        /\ VisibleHeight = ActualHeight
        /\ Within(F32Mul(VisibleWidth, Projection.zoom), updateArgs.width)
        /\ Within(F32Mul(VisibleHeight, Projection.zoom), updateArgs.height)

\* an update in centered mode whose product (right - left) * zoom is not W
C1_Witness ==
    /\ AfterUpdate
    /\ Projection.centered
    /\ F32Lt(Projection.left, F32Zero)
    /\ F32Mul(VisibleWidth, Projection.zoom) # updateArgs.width

\* C3 as stated: in every state in which centered is false, left = 0 and
\* bottom = 0.
C3_AlwaysAtOrigin ==
    (HasCamera /\ ~Projection.centered) =>
        (Projection.left = F32Zero /\ Projection.bottom = F32Zero)

\* C3 as amended: after update(W, H) with centered false, left = 0 and
\* bottom = 0.
C3_AtOriginAfterUpdate ==
    (AfterUpdate /\ ~Projection.centered) =>
        (Projection.left = F32Zero /\ Projection.bottom = F32Zero)

\* an update in non-centered mode of a projection that was centered before
C3_Witness ==
    /\ AfterUpdate
    /\ ~Projection.centered
    /\ F32Lt(F32Zero, Projection.right)
    /\ F32Lt(F32Zero, Projection.top)

\* C4: after update(W, H) the virtual resolution fits inside the visible
\* region: right - left >= virtual_width and top - bottom >= virtual_height,
\* with equality on at least one axis.
C4_VirtualFits ==
    AfterUpdate =>
        /\ F32Le(I32ToF32(Projection.virtual_width), VisibleWidth)
        /\ F32Le(I32ToF32(Projection.virtual_height), VisibleHeight)
        /\ \/ VisibleWidth = I32ToF32(Projection.virtual_width)
           \/ VisibleHeight = I32ToF32(Projection.virtual_height)

\* C5: after update(W, H) in centered mode, left = -(trunc(W/zoom) div 2),
\* bottom = -(trunc(H/zoom) div 2), right = left + W/zoom and
\* top = bottom + H/zoom; the midpoints (left + right)/2 and (bottom + top)/2
\* are at most 1 away from 0, and are 0 when the extent is an even integer.
C5_CenteredBounds ==
    (AfterUpdate /\ Projection.centered) =>
        LET tw == F32ToI32(ActualWidth)
            th == F32ToI32(ActualHeight)
            sx == F32Add(Projection.left, Projection.right)
            sy == F32Add(Projection.bottom, Projection.top)
        IN  /\ Projection.left = I32ToF32(-I32Div(tw, 2))
            /\ Projection.bottom = I32ToF32(-I32Div(th, 2))
            /\ Projection.right = F32Add(Projection.left, ActualWidth)
            /\ Projection.top = F32Add(Projection.bottom, ActualHeight)
            /\ F32Le(F32Abs(sx), I32ToF32(2))
            /\ F32Le(F32Abs(sy), I32ToF32(2))
            /\ (ActualWidth = I32ToF32(tw) /\ tw % 2 = 0) => sx = F32Zero
            /\ (ActualHeight = I32ToF32(th) /\ th % 2 = 0) => sy = F32Zero

\* a centered update with an odd extent on one axis, off centre by a half,
\* and an even one on the other, centered exactly
C5_Witness ==
    /\ AfterUpdate
    /\ Projection.centered
    /\ F32Add(Projection.left, Projection.right) = I32ToF32(1)
    /\ F32Add(Projection.bottom, Projection.top) = F32Zero
    /\ F32Lt(Projection.bottom, F32Zero)

\* C8: from_resolution(w, h) returns centered = true, virtual_width = w,
\* virtual_height = h, near = 0, far = 1000, zoom = 1, left = -(w div 2),
\* right = left + w, bottom = -(h div 2), top = bottom + h; 640x480, the
\* Default too, gives -320, 320, -240, 240; the bundle puts the camera at
\* z = far - 0.1.
C8_FromResolution ==
    /\ (HasCamera /\ lastOp = "from_resolution") =>
        LET w == F32ToI32(updateArgs.width)
            h == F32ToI32(updateArgs.height)
        IN  /\ Projection.centered
            /\ Projection.virtual_width = w
            /\ Projection.virtual_height = h
            /\ Projection.near = F32Zero
            /\ Projection.far = [s |-> 1, m |-> 1000 * 2^14, e |-> -14]
            /\ Projection.zoom = [s |-> 1, m |-> 2^23, e |-> -23]
            /\ Projection.left = I32ToF32(-(w \div 2))
            /\ Projection.right = I32ToF32(w - (w \div 2))
            /\ Projection.bottom = I32ToF32(-(h \div 2))
            /\ Projection.top = I32ToF32(h - (h \div 2))
            /\ Translation.x = F32Zero
            /\ Translation.y = F32Zero
            /\ Translation.z = F32Sub(Projection.far, F32Lit(1, 10))
            /\ (w = 640 /\ h = 480) =>
                   /\ Projection.left = I32ToF32(-320)
                   /\ Projection.right = I32ToF32(320)
                   /\ Projection.bottom = I32ToF32(-240)
                   /\ Projection.top = I32ToF32(240)
    /\ DefaultProjection.virtual_width = 640
    /\ DefaultProjection.virtual_height = 480
    /\ DefaultProjection.left = I32ToF32(-320)
    /\ DefaultProjection.top = I32ToF32(240)

\* a projection fresh from from_resolution with an odd width
C8_Witness ==
    /\ HasCamera
    /\ lastOp = "from_resolution"
    /\ Projection.virtual_width % 2 = 1
    /\ Projection.virtual_width > 1
    /\ Projection.virtual_height % 2 = 0

----------------------------------------------------------------------------
(* the borders                                                             *)

ResizeOps == {"resize_borders", "resize_borders_idle"}

\* the camera's projection or transform changed since resize_borders last ran
Flagged ==
    IF cameras = <<>> THEN FALSE
    ELSE cameras[1].projection_changed \/ cameras[1].transform_changed

\* the placement table of the four rectangles around the width x height
\* rectangle whose bottom-left corner is (left, bottom), at depth z
PlacementTable(left, bottom, width, height, z) ==
    [b \in Border |->
       CASE b = "Left" ->
              Quad(F32Sub(left, width), F32Sub(bottom, height), z,
                   width, F32Mul(I32ToF32(3), height))
         [] b = "Right" ->
              Quad(F32Add(left, width), F32Sub(bottom, height), z,
                   width, F32Mul(I32ToF32(3), height))
         [] b = "Top" ->
              Quad(F32Sub(left, width), F32Add(bottom, height), z,
                   F32Mul(I32ToF32(3), width), height)
         [] b = "Bottom" ->
              Quad(F32Sub(left, width), F32Sub(bottom, height), z,
                   F32Mul(I32ToF32(3), width), height)]

\* the table for camera c, its corner shifted from the camera translation by
\* minus (shift_x, shift_y) in centered mode
TableOf(c, shift_x, shift_y) ==
    PlacementTable(
        IF c.projection.centered
        THEN F32Sub(c.translation.x, shift_x) ELSE c.translation.x,
        IF c.projection.centered
        THEN F32Sub(c.translation.y, shift_y) ELSE c.translation.y,
        I32ToF32(c.projection.virtual_width),
        I32ToF32(c.projection.virtual_height),
        F32Sub(c.projection.far, F32Lit(2, 10)))

\* the shift is half the virtual extents
HalfTable(c) ==
    TableOf(c, F32Div(I32ToF32(c.projection.virtual_width), I32ToF32(2)),
               F32Div(I32ToF32(c.projection.virtual_height), I32ToF32(2)))

\* the shift is half the virtual extents rounded to the nearest integer,
\* halves upward
RoundedTable(c) ==
    TableOf(c, I32ToF32((c.projection.virtual_width + 1) \div 2),
               I32ToF32((c.projection.virtual_height + 1) \div 2))

C7_NoChangeNoWrite ==
    [][(lastOp' \in ResizeOps /\ (~Flagged \/ lastOp \in ResizeOps))
          => borders' = borders]_vars

\* a border update that ran without a camera, the rectangles still where an
\* earlier camera had them
C7_Witness ==
    /\ ~HasCamera
    /\ lastOp = "resize_borders_idle"
    /\ borders # SpawnedBorders

\* C10: a step that inserts the camera or changes its projection or
\* transform marks it changed, and it stays marked until the border
\* update runs; a border update that finds it marked rewrites the four
\* rectangles to the placement of the current virtual size, centering, far
\* plane and translation; one that finds it unmarked writes nothing.
C10_ChangeTriggered ==
    [][/\ (/\ lastOp' \notin ResizeOps
           /\ cameras' # <<>>
           /\ \/ cameras = <<>>
              \/ Flagged
              \/ cameras'[1].projection # cameras[1].projection
              \/ cameras'[1].translation # cameras[1].translation)
          => Flagged'
       /\ (lastOp' \in ResizeOps /\ Flagged)
          => /\ borders' = RoundedTable(cameras[1])
             /\ lastOp' = "resize_borders"
             /\ ~Flagged'
       /\ (lastOp' \in ResizeOps /\ ~Flagged)
          => /\ borders' = borders
             /\ lastOp' = "resize_borders_idle"]_vars

\* the borders rewritten after the camera alone was moved
C10_Witness ==
    /\ HasCamera
    /\ lastOp = "resize_borders"
    /\ ~Flagged
    /\ Translation.y # F32Zero
    /\ borders["Bottom"].y = F32Sub(Translation.y,
                                    I32ToF32(Projection.virtual_height))

----------------------------------------------------------------------------
(* the borders against the visible region                                  *)

\* the bounds of the projection are those update leaves for its configuration
UpToDate ==
    Projection = update(Projection, updateArgs.width, updateArgs.height)

\* update, then the border update, have run
AfterUpdateAndResize == HasCamera /\ lastOp = "resize_borders" /\ UpToDate

\* the visible region in world space
VisibleLeft == F32Add(Projection.left, Translation.x)
VisibleRight == F32Add(Projection.right, Translation.x)
VisibleBottom == F32Add(Projection.bottom, Translation.y)
VisibleTop == F32Add(Projection.top, Translation.y)

\* sample points: the half-integer lattice over every visible region
GridHalves == 2 * (MaxWindow * MaxVirtual + MaxMove + 1)
Lattice == {F32Div(I32ToF32(k), I32ToF32(2)) : k \in -GridHalves..GridHalves}

Between(lo, v, hi) == F32Le(lo, v) /\ F32Le(v, hi)

\* the point (x, y) lies in the rectangle q, taken from its bottom-left corner
InQuad(x, y, q) ==
    /\ Between(q.x, x, F32Add(q.x, q.w))
    /\ Between(q.y, y, F32Add(q.y, q.h))

\* the virtual-resolution rectangle the borders frame
InFramed(x, y) ==
    /\ Between(F32Add(borders["Left"].x, borders["Left"].w), x, borders["Right"].x)
    /\ Between(F32Add(borders["Bottom"].y, borders["Bottom"].h), y, borders["Top"].y)

\* C2: after update(W, H) and a border update, every point of the visible
\* region outside the virtual-resolution rectangle lies in a border
\* rectangle, whatever the window aspect ratio.
C2_BordersOcclude ==
    AfterUpdateAndResize =>
        \A x, y \in Lattice :
            (/\ Between(VisibleLeft, x, VisibleRight)
             /\ Between(VisibleBottom, y, VisibleTop)
             /\ ~InFramed(x, y))
            => \E b \in Border : InQuad(x, y, borders[b])

\* C9: when the window has the virtual aspect ratio, the inner edges of the
\* borders are the left, right, bottom and top of the projection shifted by
\* the camera translation, so that no border reaches into the visible region.
C9_BordersJustOutside ==
    (/\ AfterUpdateAndResize
     /\ F32ToI32(updateArgs.width) * Projection.virtual_height
          = F32ToI32(updateArgs.height) * Projection.virtual_width)
    => /\ F32Add(borders["Left"].x, borders["Left"].w) = VisibleLeft
       /\ borders["Right"].x = VisibleRight
       /\ F32Add(borders["Bottom"].y, borders["Bottom"].h) = VisibleBottom
       /\ borders["Top"].y = VisibleTop

====
